---- MODULE Spec2Model ----
(***************************************************************************)
(* AI Vision Recipe Generator: the Streamlit script app.py (one script     *)
(* execution per rerun of a browser session, the process-wide              *)
(* st.cache_resource registry of model handles, the per-session            *)
(* st.session_state) and the ModelManager class of models.py.              *)
(*                                                                         *)
(* Conventions of the model                                                *)
(*  - a Python optional value is a sequence of length 0 (absent) or 1;     *)
(*  - a float confidence is an integer number of percent;                  *)
(*  - a Python str is a TLA+ string; where the code looks inside a string  *)
(*    (str.lower, the `in` substring test) the string's characters are     *)
(*    given by StrChars;                                                    *)
(*  - pc[s] is the place of session s's script thread in app.py.  A stage  *)
(*    state (Captioning, ...) means the thread is inside that stage's      *)
(*    call; the stage's action is the call returning.                      *)
(***************************************************************************)
EXTENDS Integers, Sequences, FiniteSets, TLC

(***************************************************************************)
(* Bounds of the model (not program constants).                            *)
(***************************************************************************)
\* cap on st.session_state.recipes_generated: no run is triggered beyond it
MaxRecipes == 2
\* cap on the number of times the body of one cached loader is executed
MaxLoads == 2

\* browser sessions: each has its own script thread and session_state
Sessions == {"s1", "s2"}
\* the session that runs beside a ModelManager user in SpecProcess
RegistrySessions == {"s1"}
\* the ModelManager object used beside it
RegistryManagers == {"m1"}

(***************************************************************************)
(* Program constants.                                                      *)
(***************************************************************************)
\* app.py:187  image.size[0] < 50 or image.size[1] < 50
MinImageSide == 50
\* app.py:196  size_mb > 10
MaxSizeMb == 10
\* app.py:194  len(...) / (1024 * 1024)
BytesPerMb == 1048576
\* app.py:424  top_k=5 if show_top_k else 1
TopKShown == 5
TopKHidden == 1
\* app.py:349  st.slider(..., value=4)
DefaultServings == 4

CaptionPlaceholder == "Unable to generate caption"
RecipePlaceholder == "Unable to generate recipe. Please try again."
UnknownLabel == "Unknown"
\* app.py:255  [("Unknown", 0.0)]
ClassifyPlaceholder == << <<UnknownLabel, 0>> >>

\* the texts validate_image hands to st.error, without the leading mark
TooSmallMessage == "Image is too small. Please upload a larger image (at least 50x50 pixels)."
TooLargeMessage == "Image is too large. Please upload an image smaller than 10MB."
ValidationErrorMessage == "Error validating image"

Kinds == {"blip", "vit", "flan"}
Devices == {"cpu", "cuda"}


(***************************************************************************)
(* Strings the code looks inside.                                          *)
(***************************************************************************)
\* the characters of the strings that reach str.lower / the `in` test
StrChars(s) ==
    CASE
           s = "pizza" -> <<"p", "i", "z", "z", "a">>
        [] s = "hamburger" -> <<"h", "a", "m", "b", "u", "r", "g", "e", "r">>
        [] s = "caesar_salad" -> <<"c", "a", "e", "s", "a", "r", "_", "s", "a", "l", "a", "d">>
        [] s = "sushi" -> <<"s", "u", "s", "h", "i">>
        [] s = "ramen" -> <<"r", "a", "m", "e", "n">>
        [] s = "spaghetti_bolognese" -> <<"s", "p", "a", "g", "h", "e", "t", "t", "i", "_", "b", "o", "l", "o", "g", "n", "e", "s", "e">>
        [] s = "burger" -> <<"b", "u", "r", "g", "e", "r">>
        [] s = "salad" -> <<"s", "a", "l", "a", "d">>
        [] s = "pasta" -> <<"p", "a", "s", "t", "a">>
        [] s = "Unknown" -> <<"U", "n", "k", "n", "o", "w", "n">>
        [] s = "~300" -> <<"~", "3", "0", "0">>
        [] s = "~15g" -> <<"~", "1", "5", "g">>
        [] s = "~40g" -> <<"~", "4", "0", "g">>
        [] s = "~12g" -> <<"~", "1", "2", "g">>

UpperCase == <<"A","B","C","D","E","F","G","H","I","J","K","L","M",
               "N","O","P","Q","R","S","T","U","V","W","X","Y","Z">>
LowerCase == <<"a","b","c","d","e","f","g","h","i","j","k","l","m",
               "n","o","p","q","r","s","t","u","v","w","x","y","z">>

\* str.lower on one character
LowerChar(c) ==
    IF \E i \in 1..Len(UpperCase) : UpperCase[i] = c
    THEN LowerCase[CHOOSE i \in 1..Len(UpperCase) : UpperCase[i] = c]
    ELSE c

\* str.lower
Lower(cs) == [i \in 1..Len(cs) |-> LowerChar(cs[i])]

\* Python's `key in text` on strings
IsSubstring(key, text) ==
    \E i \in 0..(Len(text) - Len(key)) :
        \A j \in 1..Len(key) : text[i + j] = key[j]

(***************************************************************************)
(* validate_image (app.py:183-203).  An image is its width, its height,    *)
(* and what image.save(..., format='PNG') does with it: `encodes` is       *)
(* whether the save returns, `bytes` the length of what it wrote.  The     *)
(* result is the returned bool and the text handed to st.error ("" when    *)
(* st.error is not called).                                                *)
(***************************************************************************)
\* validate_image with the comparisons off by one
ValidateImageStrictBounds(image) ==
    IF image.w <= MinImageSide \/ image.h <= MinImageSide
    THEN [ok |-> FALSE, reason |-> TooSmallMessage]
    ELSE IF ~image.encodes
    THEN [ok |-> FALSE, reason |-> ValidationErrorMessage]
    ELSE IF image.bytes >= MaxSizeMb * BytesPerMb
    THEN [ok |-> FALSE, reason |-> TooLargeMessage]
    ELSE [ok |-> TRUE, reason |-> ""]

ValidateImage(image) ==
    IF image.w < MinImageSide \/ image.h < MinImageSide
    THEN [ok |-> FALSE, reason |-> TooSmallMessage]
    ELSE IF ~image.encodes
    THEN [ok |-> FALSE, reason |-> ValidationErrorMessage]
    \* size_mb = bytes / (1024 * 1024); size_mb > 10
    ELSE IF image.bytes > MaxSizeMb * BytesPerMb
    THEN [ok |-> FALSE, reason |-> TooLargeMessage]
    ELSE [ok |-> TRUE, reason |-> ""]

(***************************************************************************)
(* classify_food (app.py:229-255): softmax probabilities over the label    *)
(* set, torch.topk, id2label.                                              *)
(***************************************************************************)
\* food_model.config.id2label (six of the classifier's labels)
Id2Label == <<"pizza", "hamburger", "caesar_salad", "sushi", "ramen",
              "spaghetti_bolognese">>

\* softmax outputs the classifier can produce, in percent, one per label
ProbVectors == { <<40, 25, 15, 10, 6, 4>>, <<5, 10, 50, 5, 20, 10>> }

\* the index torch.topk takes next: the largest remaining value
ArgMax(probs, idxs) ==
    CHOOSE i \in idxs : \A j \in idxs :
        probs[j] < probs[i] \/ (probs[j] = probs[i] /\ i <= j)

RECURSIVE TopKFrom(_, _, _)
TopKFrom(probs, idxs, k) ==
    IF k = 0 THEN << >>
    ELSE LET i == ArgMax(probs, idxs)
         IN <<i>> \o TopKFrom(probs, idxs \ {i}, k - 1)

\* torch.topk(probs[0], top_k) raises when top_k exceeds the label count
TopKRaises(probs, k) == k > Len(probs)

\* the first k labels in index order, without torch.topk
TopKUnsorted(probs, k) ==
    [n \in 1..k |-> <<Id2Label[n], probs[n]>>]

\* the (label, confidence) list built at app.py:246-252
TopK(probs, k) ==
    LET top == TopKFrom(probs, 1..Len(probs), k)
    IN [n \in 1..k |-> <<Id2Label[top[n]], probs[top[n]]>>]

\* classify_food as a function of what the model computes: the try body's
\* list, or the except branch's placeholder
ClassifyFoodReturn(probs, top_k, raises) ==
    IF raises \/ TopKRaises(probs, top_k)
    THEN ClassifyPlaceholder
    ELSE TopK(probs, top_k)

(***************************************************************************)
(* estimate_nutrition (app.py:257-275).                                    *)
(***************************************************************************)
\* the keys of nutrition_db in the dict's iteration (insertion) order
NutritionKeys == <<"pizza", "burger", "salad", "pasta", "sushi">>

NutritionDb(key) ==
    CASE key = "pizza"  -> [calories |-> "285", protein |-> "12g", carbs |-> "36g", fat |-> "10g"]
      [] key = "burger" -> [calories |-> "540", protein |-> "25g", carbs |-> "40g", fat |-> "27g"]
      [] key = "salad"  -> [calories |-> "150", protein |-> "5g", carbs |-> "15g", fat |-> "8g"]
      [] key = "pasta"  -> [calories |-> "350", protein |-> "13g", carbs |-> "60g", fat |-> "7g"]
      [] key = "sushi"  -> [calories |-> "200", protein |-> "9g", carbs |-> "30g", fat |-> "6g"]

DefaultNutrition ==
    [calories |-> "~300", protein |-> "~15g", carbs |-> "~40g", fat |-> "~12g"]

\* the lookup without dish.lower()
EstimateNutritionCaseSensitive(chars) ==
    LET hits == {i \in 1..Len(NutritionKeys) :
                    IsSubstring(StrChars(NutritionKeys[i]), chars)}
    IN IF hits = {} THEN DefaultNutrition
       ELSE NutritionDb(NutritionKeys[CHOOSE i \in hits : \A j \in hits : i <= j])

\* estimate_nutrition on the characters of its argument: the record of the
\* first key, in iteration order, found in the lowercased name
EstimateNutritionOf(chars) ==
    LET dish_lower == Lower(chars)
        hits == {i \in 1..Len(NutritionKeys) :
                    IsSubstring(StrChars(NutritionKeys[i]), dish_lower)}
    IN IF hits = {} THEN DefaultNutrition
       ELSE NutritionDb(NutritionKeys[CHOOSE i \in hits : \A j \in hits : i <= j])

EstimateNutrition(dish) == EstimateNutritionOf(StrChars(dish))

(***************************************************************************)
(* The prompt of generate_recipe (app.py:287-302), as its lines; a line    *)
(* is the sequence of the literal and interpolated pieces it is made of.   *)
(***************************************************************************)
\* the clause without the test for "None"
DietaryClauseAlways(dietary_pref) ==
    <<"The recipe must be ", dietary_pref, ". ">>

DietaryClause(dietary_pref) ==
    IF dietary_pref # "None"
    THEN <<"The recipe must be ", dietary_pref, ". ">>
    ELSE << >>

BuildPrompt(dish, caption, dietary_pref, servings, difficulty) ==
    << <<"You are a professional chef. Create a detailed recipe.">>,
       << >>,
       <<"Dish: ", dish>>,
       <<"Description: ", caption>>,
       DietaryClause(dietary_pref) \o <<"Servings: ", ToString(servings)>>,
       <<"Difficulty: ", difficulty>>,
       << >>,
       <<"Provide:">>,
       <<"1. Ingredients (with exact measurements)">>,
       <<"2. Step-by-step instructions (numbered)">>,
       <<"3. Prep time and cook time">>,
       <<"4. Tips and variations">>,
       << >>,
       <<"Format the recipe clearly and professionally.">> >>

\* the prompt of ModelManager.generate_recipe (models.py:176-192)
ManagerBuildPrompt(dish, caption, dietary_pref, servings, difficulty) ==
    << <<"You are a professional chef. Create a detailed recipe.">>,
       << >>,
       <<"Dish: ", dish>>,
       <<"Description: ", caption>>,
       DietaryClause(dietary_pref) \o <<"Servings: ", ToString(servings)>>,
       <<"Difficulty: ", difficulty>>,
       << >>,
       <<"Provide a complete recipe with:">>,
       <<"1. Ingredients list (with exact measurements)">>,
       <<"2. Step-by-step cooking instructions (numbered steps)">>,
       <<"3. Preparation time and cooking time">>,
       <<"4. Helpful tips and possible variations">>,
       << >>,
       <<"Format the recipe in a clear, professional manner.">> >>


(***************************************************************************)
(* State.                                                                  *)
(***************************************************************************)
VARIABLES
    \* ---- process-wide ----
    cache_resource,   \* st.cache_resource: loader name -> memoized return value (optional)
    loads,            \* loader name -> number of times its body was executed
    \* ---- per browser session ----
    pc,               \* where the session's script thread is
    session_state,    \* st.session_state.recipes_generated (optional)
    handles,          \* the script's globals blip_model, food_model, flan_model (optional)
    dietary_pref,     \* sidebar selectbox
    show_top_k,       \* sidebar checkbox
    image,            \* the decoded upload (optional)
    validation,       \* what validate_image returned in this execution (optional)
    caption,          \* generate_caption's return value (optional)
    food_predictions, \* classify_food's return value (the empty list until it ran)
    prompt,           \* the prompt built in generate_recipe (optional)
    recipe,           \* generate_recipe's return value (optional)
    nutrition,        \* estimate_nutrition's return value (optional)
    result,           \* what the execution rendered and offered for download (optional)
    failed,           \* the model calls that raised in this execution
    trace,            \* the pipeline stages this execution has completed, in order
    \* ---- models.py: per ModelManager object ----
    mpc,              \* where the object's user is with it
    device_of,        \* self.device (optional: absent before __init__)
    models,           \* self.models: the keys stored so far, each with its pair
    via_factory,      \* the object was made by create_model_manager
    returned,         \* create_model_manager returned it to its caller
    \* ---- a call of validate_image on its own ----
    v_image,          \* the argument
    v_result,         \* the return value (optional: absent until it returned)
    \* ---- a call of classify_food on its own ----
    c_args,           \* the model's softmax output, top_k, whether the model call raises
    c_result,         \* the return value (optional)
    \* ---- calls of estimate_nutrition on their own ----
    n_dish,           \* the argument, as its characters
    n_results,        \* the return values of the calls made so far, in order
    \* ---- a call of a prompt builder on its own ----
    p_args,           \* which builder, and its arguments
    p_result,         \* the prompt it built (optional)
    \* ---- the download text built on its own ----
    x_args,           \* the values the template interpolates
    x_result,         \* recipe_text (optional)
    \* ---- models.py: the inference methods of a ModelManager ----
    m_call            \* per object, the last inference call and its outcome (optional)

registryVars == <<cache_resource, loads>>
runVars == <<handles, dietary_pref, show_top_k, image, validation, caption,
             food_predictions, prompt, recipe, nutrition, result, failed, trace>>
appVars == <<pc, session_state, runVars>>
mmVars == <<mpc, device_of, models, via_factory, returned>>
validateVars == <<v_image, v_result>>
classifyVars == <<c_args, c_result>>
nutritionVars == <<n_dish, n_results>>
promptVars == <<p_args, p_result>>
exportVars == <<x_args, x_result>>
unitVars == <<validateVars, classifyVars, nutritionVars, promptVars, exportVars>>
libVars == <<mmVars, m_call, unitVars>>
vars == <<registryVars, appVars, libVars>>

\* ModelManager objects the process creates
Managers == {"m1", "m2"}

Loaders == {"load_models", "load_blip_model", "load_vit_model", "load_flan_model"}

\* torch.cuda.is_available() of app.py:117 on the machine the model runs on
AppDevice == "cpu"

\* a loaded model/processor pair: what it is, where .to(device) put it, and
\* which execution of the loader's body made it
Handle(kind, device, gen) == [kind |-> kind, device |-> device, gen |-> gen]

\* uploads the browser can send: width, height and the PNG re-encoding
Images ==
    { [w |-> 49, h |-> 50, bytes |-> 0, encodes |-> TRUE],
      [w |-> 50, h |-> 50, bytes |-> MaxSizeMb * BytesPerMb, encodes |-> TRUE],
      [w |-> 50, h |-> 50, bytes |-> MaxSizeMb * BytesPerMb + 1, encodes |-> TRUE],
      [w |-> 50, h |-> 50, bytes |-> 0, encodes |-> FALSE] }

\* sidebar choices explored (app.py:339-364); servings and difficulty stay
\* at the widgets' default values
DietaryChoices == {"None", "Vegetarian"}
DefaultDifficulty == "Medium"

\* what the captioner and the text generator decode to when they succeed
ModelCaption == "a plate of food on a table"
ModelRecipe == "Ingredients: ... Instructions: ..."

StageOrder == <<"validate", "caption", "classify", "build_prompt",
                "generate_recipe", "estimate_nutrition", "emit_result">>

PipelineStates == {"Captioning", "Classifying", "PromptBuilding",
                   "RecipeGenerating", "NutritionEstimating", "Emitting"}
\* a script execution is over: the thread has ended
EndStates == {"Idle", "Halted", "Failed", "Done"}

\* a rerun that finds the previous execution's values still in place
StaleRun(s) ==
    /\ handles' = [handles EXCEPT ![s] = << >>]
    /\ validation' = [validation EXCEPT ![s] = << >>]
    /\ failed' = [failed EXCEPT ![s] = {}]
    /\ trace' = [trace EXCEPT ![s] = << >>]
    /\ UNCHANGED <<dietary_pref, show_top_k, image, caption, food_predictions,
                   prompt, recipe, nutrition, result>>

\* a fresh execution of the script: no global of the previous one survives
FreshRun(s) ==
    /\ handles' = [handles EXCEPT ![s] = << >>]
    /\ dietary_pref' = [dietary_pref EXCEPT ![s] = "None"]
    /\ show_top_k' = [show_top_k EXCEPT ![s] = TRUE]
    /\ image' = [image EXCEPT ![s] = << >>]
    /\ validation' = [validation EXCEPT ![s] = << >>]
    /\ caption' = [caption EXCEPT ![s] = << >>]
    /\ food_predictions' = [food_predictions EXCEPT ![s] = << >>]
    /\ prompt' = [prompt EXCEPT ![s] = << >>]
    /\ recipe' = [recipe EXCEPT ![s] = << >>]
    /\ nutrition' = [nutrition EXCEPT ![s] = << >>]
    /\ result' = [result EXCEPT ![s] = << >>]
    /\ failed' = [failed EXCEPT ![s] = {}]
    /\ trace' = [trace EXCEPT ![s] = << >>]

InitApp ==
    /\ cache_resource = [f \in Loaders |-> << >>]
    /\ loads = [f \in Loaders |-> 0]
    /\ pc = [s \in Sessions |-> "Idle"]
    /\ session_state = [s \in Sessions |-> << >>]
    /\ handles = [s \in Sessions |-> << >>]
    /\ dietary_pref = [s \in Sessions |-> "None"]
    /\ show_top_k = [s \in Sessions |-> TRUE]
    /\ image = [s \in Sessions |-> << >>]
    /\ validation = [s \in Sessions |-> << >>]
    /\ caption = [s \in Sessions |-> << >>]
    /\ food_predictions = [s \in Sessions |-> << >>]
    /\ prompt = [s \in Sessions |-> << >>]
    /\ recipe = [s \in Sessions |-> << >>]
    /\ nutrition = [s \in Sessions |-> << >>]
    /\ result = [s \in Sessions |-> << >>]
    /\ failed = [s \in Sessions |-> {}]
    /\ trace = [s \in Sessions |-> << >>]

InitManagers ==
    /\ mpc = [m \in Managers |-> "absent"]
    /\ device_of = [m \in Managers |-> << >>]
    /\ models = [m \in Managers |-> [k \in Kinds |-> << >>]]
    /\ via_factory = [m \in Managers |-> FALSE]
    /\ returned = [m \in Managers |-> FALSE]

\* arguments validate_image is called with on its own
TestImages ==
    [w : {1, 49, 50, 51, 5000}, h : {1, 49, 50, 51, 5000},
     bytes : {1, MaxSizeMb * BytesPerMb - 1, MaxSizeMb * BytesPerMb,
              MaxSizeMb * BytesPerMb + 1},
     encodes : BOOLEAN]

NoCall ==
    /\ v_image = [w |-> 50, h |-> 50, bytes |-> 1, encodes |-> TRUE]
    /\ v_result = << >>

\* no inference method of a ModelManager has been called
InitInference == m_call = [m \in Managers |-> << >>]

\* the functions that are not being called on their own
NoCalls(called) ==
    /\ IF "validate_image" \in called THEN TRUE ELSE NoCall
    /\ IF "classify_food" \in called THEN TRUE
       ELSE c_args = << >> /\ c_result = << >>
    /\ IF "estimate_nutrition" \in called THEN TRUE
       ELSE n_dish = << >> /\ n_results = << >>
    /\ IF "generate_recipe" \in called THEN TRUE
       ELSE p_args = << >> /\ p_result = << >>
    /\ IF "recipe_text" \in called THEN TRUE
       ELSE x_args = << >> /\ x_result = << >>

Init == InitApp /\ InitManagers /\ InitInference /\ NoCalls({})

(***************************************************************************)
(* app.py, one script execution.                                           *)
(***************************************************************************)
\* Streamlit reruns the script from its first line (widget interaction,
\* upload, button): a new thread, a new module namespace.
Start(s) ==
    /\ pc[s] \in EndStates
    /\ pc' = [pc EXCEPT ![s] = "Loading"]
    /\ FreshRun(s)
    /\ UNCHANGED <<libVars, registryVars, session_state>>

\* st.cache_resource: the memoized value is returned when there is one
CacheNeverHit(f) == FALSE
CacheHit(f) == cache_resource[f] # << >>

\* st.stop() of app.py:165 ends the script execution
LoadFailureContinues == "Sidebar"
AfterLoadFailure == "Halted"

\* load_models() and its call site
LoadModels(s) ==
    /\ pc[s] = "Loading"
    /\ IF CacheHit("load_models")
       THEN /\ handles' = [handles EXCEPT ![s] = cache_resource["load_models"]]
            /\ pc' = [pc EXCEPT ![s] = "Sidebar"]
            /\ UNCHANGED registryVars
       ELSE /\ loads["load_models"] < MaxLoads
            /\ loads' = [loads EXCEPT !["load_models"] = @ + 1]
            /\ \E raises \in BOOLEAN :
                 IF raises
                 THEN \* a from_pretrained raised: st.error, st.stop
                      /\ pc' = [pc EXCEPT ![s] = AfterLoadFailure]
                      /\ UNCHANGED <<cache_resource, handles>>
                 ELSE LET loaded == [k \in Kinds |->
                                        Handle(k, AppDevice, loads'["load_models"])]
                      IN /\ cache_resource' =
                                [cache_resource EXCEPT !["load_models"] = <<loaded>>]
                         /\ handles' = [handles EXCEPT ![s] = <<loaded>>]
                         /\ pc' = [pc EXCEPT ![s] = "Sidebar"]
    /\ UNCHANGED <<libVars, session_state, dietary_pref, show_top_k, image,
                   validation, caption, food_predictions, prompt, recipe,
                   nutrition, result, failed, trace>>

\* the sidebar with the counter assigned 0 on every execution, without
\* the test for its presence in st.session_state
SidebarResetsCounter(s) ==
    /\ pc[s] = "Sidebar"
    /\ \E d \in DietaryChoices, k \in BOOLEAN, uploaded_file \in BOOLEAN :
         /\ dietary_pref' = [dietary_pref EXCEPT ![s] = d]
         /\ show_top_k' = [show_top_k EXCEPT ![s] = k]
         /\ pc' = [pc EXCEPT ![s] = IF uploaded_file THEN "Decoding" ELSE "Idle"]
    /\ session_state' = [session_state EXCEPT ![s] = <<0>>]
    /\ UNCHANGED <<libVars, registryVars, handles, image, validation, caption,
                   food_predictions, prompt, recipe, nutrition, result, failed,
                   trace>>

\* the sidebar widgets, the session counter, the uploader
Sidebar(s) ==
    /\ pc[s] = "Sidebar"
    /\ \E d \in DietaryChoices, k \in BOOLEAN, uploaded_file \in BOOLEAN :
         /\ dietary_pref' = [dietary_pref EXCEPT ![s] = d]
         /\ show_top_k' = [show_top_k EXCEPT ![s] = k]
         /\ pc' = [pc EXCEPT ![s] = IF uploaded_file THEN "Decoding" ELSE "Idle"]
    /\ session_state' = [session_state EXCEPT ![s] =
                            IF @ = << >> THEN <<0>> ELSE @]
    /\ UNCHANGED <<libVars, registryVars, handles, image, validation, caption,
                   food_predictions, prompt, recipe, nutrition, result, failed,
                   trace>>

\* Image.open(uploaded_file).convert("RGB"); the outer handler when it raises
Decode(s) ==
    /\ pc[s] = "Decoding"
    /\ \/ /\ pc' = [pc EXCEPT ![s] = "Failed"]
          /\ UNCHANGED image
       \/ \E img \in Images :
            /\ image' = [image EXCEPT ![s] = <<img>>]
            /\ pc' = [pc EXCEPT ![s] = "Validating"]
    /\ UNCHANGED <<libVars, registryVars, session_state, handles, dietary_pref,
                   show_top_k, validation, caption, food_predictions, prompt,
                   recipe, nutrition, result, failed, trace>>

\* st.stop() of app.py:390 ends the script execution
ValidationFailureContinues == "Captioning"
AfterValidationFailure == "Failed"

\* validate_image, st.stop when it is False, and the Generate Recipe button
Validate(s) ==
    /\ pc[s] = "Validating"
    /\ LET r == ValidateImage(image[s][1])
       IN /\ validation' = [validation EXCEPT ![s] = <<r>>]
          /\ IF ~r.ok
             THEN pc' = [pc EXCEPT ![s] = AfterValidationFailure]
             ELSE \E analyze_button \in BOOLEAN :
                    /\ analyze_button => session_state[s][1] < MaxRecipes
                    /\ pc' = [pc EXCEPT ![s] =
                                IF analyze_button THEN "Captioning" ELSE "Idle"]
    /\ trace' = [trace EXCEPT ![s] = Append(@, "validate")]
    /\ UNCHANGED <<libVars, registryVars, session_state, handles, dietary_pref,
                   show_top_k, image, caption, food_predictions, prompt, recipe,
                   nutrition, result, failed>>


(***************************************************************************)
(* The pipeline under `if analyze_button:` (app.py:410-558).  Each model   *)
(* call may raise; the stage function's own except clause turns that into  *)
(* its placeholder.                                                        *)
(***************************************************************************)
\* generate_caption without its try/except: the error reaches the handler
\* of app.py:560 and the execution ends with no result
GenerateCaptionUncaught(s) ==
    /\ pc[s] = "Captioning"
    /\ \E raises \in BOOLEAN :
         /\ caption' = [caption EXCEPT ![s] =
                           IF raises THEN << >> ELSE <<ModelCaption>>]
         /\ failed' = [failed EXCEPT ![s] =
                           IF raises THEN @ \cup {"caption"} ELSE @]
         /\ pc' = [pc EXCEPT ![s] = IF raises THEN "Failed" ELSE "Classifying"]
    /\ trace' = [trace EXCEPT ![s] = Append(@, "caption")]
    /\ UNCHANGED <<libVars, registryVars, session_state, handles, dietary_pref,
                   show_top_k, image, validation, food_predictions, prompt,
                   recipe, nutrition, result>>

\* caption = generate_caption(image)
GenerateCaption(s) ==
    /\ pc[s] = "Captioning"
    /\ \E raises \in BOOLEAN :
         /\ caption' = [caption EXCEPT ![s] =
                           IF raises THEN <<CaptionPlaceholder>> ELSE <<ModelCaption>>]
         /\ failed' = [failed EXCEPT ![s] =
                           IF raises THEN @ \cup {"caption"} ELSE @]
    /\ trace' = [trace EXCEPT ![s] = Append(@, "caption")]
    /\ pc' = [pc EXCEPT ![s] = "Classifying"]
    /\ UNCHANGED <<libVars, registryVars, session_state, handles, dietary_pref,
                   show_top_k, image, validation, food_predictions, prompt,
                   recipe, nutrition, result>>

\* classify_food called again when it fell back to its placeholder
ClassifyFoodRetries(s) ==
    /\ pc[s] = "Classifying"
    /\ LET top_k == IF show_top_k[s] THEN TopKShown ELSE TopKHidden
       IN \E raises \in BOOLEAN, probs \in ProbVectors :
            LET error == raises \/ TopKRaises(probs, top_k)
            IN /\ food_predictions' = [food_predictions EXCEPT ![s] =
                      IF error THEN ClassifyPlaceholder ELSE TopK(probs, top_k)]
               /\ failed' = [failed EXCEPT ![s] =
                      IF error THEN @ \cup {"classify"} ELSE @]
               /\ pc' = [pc EXCEPT ![s] =
                      IF error /\ Len(trace[s]) < Len(StageOrder)
                      THEN "Classifying" ELSE "PromptBuilding"]
    /\ trace' = [trace EXCEPT ![s] = Append(@, "classify")]
    /\ UNCHANGED <<libVars, registryVars, session_state, handles, dietary_pref,
                   show_top_k, image, validation, caption, prompt, recipe,
                   nutrition, result>>

\* food_predictions = classify_food(image, top_k=5 if show_top_k else 1)
ClassifyFood(s) ==
    /\ pc[s] = "Classifying"
    /\ LET top_k == IF show_top_k[s] THEN TopKShown ELSE TopKHidden
       IN \E raises \in BOOLEAN, probs \in ProbVectors :
            LET error == raises \/ TopKRaises(probs, top_k)
            IN /\ food_predictions' = [food_predictions EXCEPT ![s] =
                      IF error THEN ClassifyPlaceholder ELSE TopK(probs, top_k)]
               /\ failed' = [failed EXCEPT ![s] =
                      IF error THEN @ \cup {"classify"} ELSE @]
    /\ trace' = [trace EXCEPT ![s] = Append(@, "classify")]
    /\ pc' = [pc EXCEPT ![s] = "PromptBuilding"]
    /\ UNCHANGED <<libVars, registryVars, session_state, handles, dietary_pref,
                   show_top_k, image, validation, caption, prompt, recipe,
                   nutrition, result>>

\* primary_dish = food_predictions[0][0]
PrimaryDish(s) == food_predictions[s][1][1]

\* generate_recipe, up to the prompt
BuildPromptStep(s) ==
    /\ pc[s] = "PromptBuilding"
    /\ prompt' = [prompt EXCEPT ![s] =
                     <<BuildPrompt(PrimaryDish(s), caption[s][1], dietary_pref[s],
                                   DefaultServings, DefaultDifficulty)>>]
    /\ trace' = [trace EXCEPT ![s] = Append(@, "build_prompt")]
    /\ pc' = [pc EXCEPT ![s] = "RecipeGenerating"]
    /\ UNCHANGED <<libVars, registryVars, session_state, handles, dietary_pref,
                   show_top_k, image, validation, caption, food_predictions,
                   recipe, nutrition, result, failed>>

\* generate_recipe without its try/except: the error reaches the handler
\* of app.py:560 and the execution ends with no result
GenerateRecipeUncaught(s) ==
    /\ pc[s] = "RecipeGenerating"
    /\ \E raises \in BOOLEAN :
         /\ recipe' = [recipe EXCEPT ![s] =
                          IF raises THEN << >> ELSE <<ModelRecipe>>]
         /\ failed' = [failed EXCEPT ![s] =
                          IF raises THEN @ \cup {"recipe"} ELSE @]
         /\ pc' = [pc EXCEPT ![s] =
                      IF raises THEN "Failed" ELSE "NutritionEstimating"]
    /\ trace' = [trace EXCEPT ![s] = Append(@, "generate_recipe")]
    /\ UNCHANGED <<libVars, registryVars, session_state, handles, dietary_pref,
                   show_top_k, image, validation, caption, food_predictions,
                   prompt, nutrition, result>>

\* generate_recipe, from the tokenizer call on
GenerateRecipe(s) ==
    /\ pc[s] = "RecipeGenerating"
    /\ \E raises \in BOOLEAN :
         /\ recipe' = [recipe EXCEPT ![s] =
                          IF raises THEN <<RecipePlaceholder>> ELSE <<ModelRecipe>>]
         /\ failed' = [failed EXCEPT ![s] =
                          IF raises THEN @ \cup {"recipe"} ELSE @]
    /\ trace' = [trace EXCEPT ![s] = Append(@, "generate_recipe")]
    /\ pc' = [pc EXCEPT ![s] = "NutritionEstimating"]
    /\ UNCHANGED <<libVars, registryVars, session_state, handles, dietary_pref,
                   show_top_k, image, validation, caption, food_predictions,
                   prompt, nutrition, result>>

\* nutrition = estimate_nutrition(primary_dish)
EstimateNutritionStep(s) ==
    /\ pc[s] = "NutritionEstimating"
    /\ nutrition' = [nutrition EXCEPT ![s] = <<EstimateNutrition(PrimaryDish(s))>>]
    /\ trace' = [trace EXCEPT ![s] = Append(@, "estimate_nutrition")]
    /\ pc' = [pc EXCEPT ![s] = "Emitting"]
    /\ UNCHANGED <<libVars, registryVars, session_state, handles, dietary_pref,
                   show_top_k, image, validation, caption, food_predictions,
                   prompt, recipe, result, failed>>

\* the counter, the rendered results and the download button
Emit(s) ==
    /\ pc[s] = "Emitting"
    /\ session_state' = [session_state EXCEPT ![s] = <<@[1] + 1>>]
    /\ result' = [result EXCEPT ![s] =
                     << [caption |-> caption[s][1],
                         classification_results |-> food_predictions[s],
                         primary_dish |-> PrimaryDish(s),
                         recipe_text |-> recipe[s][1],
                         nutrition_record |-> nutrition[s][1],
                         dietary_pref |-> dietary_pref[s],
                         servings |-> DefaultServings,
                         difficulty |-> DefaultDifficulty] >>]
    /\ trace' = [trace EXCEPT ![s] = Append(@, "emit_result")]
    /\ pc' = [pc EXCEPT ![s] = "Done"]
    /\ UNCHANGED <<libVars, registryVars, handles, dietary_pref, show_top_k, image,
                   validation, caption, food_predictions, prompt, recipe,
                   nutrition, failed>>

SessionStep(s) ==
    \/ Start(s)
    \/ LoadModels(s)
    \/ Sidebar(s)
    \/ Decode(s)
    \/ Validate(s)
    \/ GenerateCaption(s)
    \/ ClassifyFood(s)
    \/ BuildPromptStep(s)
    \/ GenerateRecipe(s)
    \/ EstimateNutritionStep(s)
    \/ Emit(s)

Next == \E s \in Sessions : SessionStep(s)

Spec == Init /\ [][Next]_vars


(***************************************************************************)
(* models.py: ModelManager and create_model_manager.  The three loaders    *)
(* are st.cache_resource functions whose only parameter is `_self`, which  *)
(* the cache leaves out of its key: one memoized value per loader.         *)
(***************************************************************************)
\* self.device = device or ("cuda" if torch.cuda.is_available() else "cpu")
DeviceFor(device) == IF device = << >> THEN AppDevice ELSE device[1]

DeviceArgs == {<< >>} \cup {<<d>> : d \in Devices}

\* ModelManager(device=...) called directly
Construct(m) ==
    /\ mpc[m] = "absent"
    /\ \E device \in DeviceArgs :
         device_of' = [device_of EXCEPT ![m] = <<DeviceFor(device)>>]
    /\ mpc' = [mpc EXCEPT ![m] = "constructed"]
    /\ UNCHANGED <<models, via_factory, returned>>
    /\ UNCHANGED <<registryVars, appVars, m_call, unitVars>>

\* create_model_manager(device): the constructor, then load_all_models
CreateModelManager(m) ==
    /\ mpc[m] = "absent"
    /\ \E device \in DeviceArgs :
         device_of' = [device_of EXCEPT ![m] = <<DeviceFor(device)>>]
    /\ via_factory' = [via_factory EXCEPT ![m] = TRUE]
    /\ mpc' = [mpc EXCEPT ![m] = "load_blip"]
    /\ UNCHANGED <<models, returned>>
    /\ UNCHANGED <<registryVars, appVars, m_call, unitVars>>

\* manager.load_all_models() called by whoever holds the object
LoadAllModels(m) ==
    /\ mpc[m] \in {"constructed", "loaded", "raised"}
    /\ ~via_factory[m] \/ returned[m]
    /\ mpc' = [mpc EXCEPT ![m] = "load_blip"]
    /\ UNCHANGED <<device_of, models, via_factory, returned>>
    /\ UNCHANGED <<registryVars, appVars, m_call, unitVars>>

\* the device a loader body puts the model on: .to(_self.device)
LoadedOnto(m) == device_of[m][1]

\* what the memoized loader returns without running its body
CachedValue(m, loader) ==
    IF CacheHit(loader) THEN cache_resource[loader] ELSE << >>

\* self.models[kind] = self.load_<kind>_model(), then what follows it (the
\* next loader, or the return of load_all_models and of the factory)
CachedLoad(m, kind, loader, then) ==
    /\ IF CachedValue(m, loader) # << >>
       THEN /\ models' = [models EXCEPT ![m][kind] = CachedValue(m, loader)]
            /\ mpc' = [mpc EXCEPT ![m] = then]
            /\ returned' = [returned EXCEPT ![m] =
                               @ \/ (then = "loaded" /\ via_factory[m])]
            /\ UNCHANGED registryVars
       ELSE /\ loads[loader] < MaxLoads
            /\ loads' = [loads EXCEPT ![loader] = @ + 1]
            /\ \E raises \in BOOLEAN :
                 IF raises
                 THEN \* st.error and re-raise: load_all_models and
                      \* create_model_manager end with the exception
                      /\ mpc' = [mpc EXCEPT ![m] = "raised"]
                      /\ UNCHANGED <<cache_resource, models, returned>>
                 ELSE LET pair == Handle(kind, LoadedOnto(m), loads'[loader])
                      IN /\ cache_resource' =
                                [cache_resource EXCEPT ![loader] = <<pair>>]
                         /\ models' = [models EXCEPT ![m][kind] = <<pair>>]
                         /\ mpc' = [mpc EXCEPT ![m] = then]
                         /\ returned' = [returned EXCEPT ![m] =
                               @ \/ (then = "loaded" /\ via_factory[m])]
    /\ UNCHANGED <<device_of, via_factory>>
    /\ UNCHANGED <<appVars, m_call, unitVars>>

\* self.models['blip'] = self.load_blip_model()
LoadBlipModel(m) ==
    /\ mpc[m] = "load_blip"
    /\ CachedLoad(m, "blip", "load_blip_model", "load_vit")

\* self.models['vit'] = self.load_vit_model()
LoadVitModel(m) ==
    /\ mpc[m] = "load_vit"
    /\ CachedLoad(m, "vit", "load_vit_model", "load_flan")

\* self.models['flan'] = self.load_flan_model(); return self.models
LoadFlanModel(m) ==
    /\ mpc[m] = "load_flan"
    /\ CachedLoad(m, "flan", "load_flan_model", "loaded")

ManagerStep(m) ==
    \/ Construct(m)
    \/ CreateModelManager(m)
    \/ LoadAllModels(m)
    \/ LoadBlipModel(m)
    \/ LoadVitModel(m)
    \/ LoadFlanModel(m)

NextManagers == \E m \in Managers : ManagerStep(m)

SpecManagers == Init /\ [][NextManagers]_vars

\* one browser session and one ModelManager user in the same process
NextProcess ==
    \/ \E s \in RegistrySessions : SessionStep(s)
    \/ \E m \in RegistryManagers : ManagerStep(m)

SpecProcess == Init /\ [][NextProcess]_vars

(***************************************************************************)
(* validate_image called on its own, on every argument of TestImages.      *)
(***************************************************************************)
InitValidate ==
    /\ InitApp /\ InitManagers /\ InitInference
    /\ NoCalls({"validate_image"})
    /\ v_image \in TestImages /\ v_result = << >>

CallValidateImage ==
    /\ v_result = << >>
    /\ v_result' = <<ValidateImage(v_image)>>
    /\ UNCHANGED <<v_image, registryVars, appVars, mmVars, m_call>>
    /\ UNCHANGED <<classifyVars, nutritionVars, promptVars, exportVars>>

NextValidate == CallValidateImage

SpecValidate == InitValidate /\ [][NextValidate]_vars


(***************************************************************************)
(* Properties.                                                             *)
(***************************************************************************)
IsRejected(s) == validation[s] # << >> /\ ~validation[s][1].ok

\* the state the pipeline is in after the given one
NextStage(state) ==
    CASE state = "Captioning" -> "Classifying"
      [] state = "Classifying" -> "PromptBuilding"
      [] state = "PromptBuilding" -> "RecipeGenerating"
      [] state = "RecipeGenerating" -> "NutritionEstimating"
      [] state = "NutritionEstimating" -> "Emitting"
      [] state = "Emitting" -> "Done"

IsPrefix(a, b) == Len(a) <= Len(b) /\ \A i \in 1..Len(a) : a[i] = b[i]

\* C1: in an execution whose validate_image returned False no inference
\* stage (caption, classification, recipe generation, nutrition) is ever
\* started or completed: the execution is over, with nothing but the
\* validation on its trace and none of the stages' values set.
C1_ValidationFailureShortCircuits ==
    \A s \in Sessions :
        IsRejected(s) =>
            /\ pc[s] = "Failed"
            /\ trace[s] = <<"validate">>
            /\ caption[s] = << >>
            /\ food_predictions[s] = << >>
            /\ recipe[s] = << >>
            /\ nutrition[s] = << >>
            /\ result[s] = << >>

C1_Witness ==
    \E s \in Sessions :
        /\ IsRejected(s)
        /\ pc[s] = "Failed"
        /\ validation[s][1].reason = TooLargeMessage

\* C2: once the pipeline is entered (validation passed, button pressed) the
\* execution only ever moves on to the next stage, whatever subset of the
\* three model calls raises; an execution in which a model call raised ends
\* only in Done; and at Done there is a complete result bundle in which each
\* call that raised left exactly its placeholder.
C2_ModelFailuresAreAbsorbed ==
    /\ [][\A s \in Sessions :
            (pc[s] \in PipelineStates /\ pc'[s] # pc[s]) => pc'[s] = NextStage(pc[s])]_vars
    /\ [](\A s \in Sessions :
            (pc[s] \in EndStates /\ failed[s] # {}) => pc[s] = "Done")
    /\ [](\A s \in Sessions :
            pc[s] = "Done" =>
                /\ result[s] # << >>
                /\ result[s][1].caption \in {ModelCaption, CaptionPlaceholder}
                /\ Len(result[s][1].classification_results) >= 1
                /\ result[s][1].recipe_text \in {ModelRecipe, RecipePlaceholder}
                /\ result[s][1].nutrition_record = nutrition[s][1]
                /\ ("caption" \in failed[s]) =>
                       result[s][1].caption = "Unable to generate caption"
                /\ ("classify" \in failed[s]) =>
                       result[s][1].classification_results = << <<"Unknown", 0>> >>
                /\ ("recipe" \in failed[s]) =>
                       result[s][1].recipe_text =
                           "Unable to generate recipe. Please try again.")

C2_Witness ==
    \E s \in Sessions :
        /\ pc[s] = "Done"
        /\ failed[s] = {"caption", "classify", "recipe"}
        /\ result[s] # << >>

\* C3: the stages an execution has completed are always an initial part of
\* validate, caption, classify, build prompt, generate recipe, estimate
\* nutrition, emit result (so each at most once, in that order), and the
\* execution is inside a stage only when exactly the stages before it have
\* completed.
C3_StagesInOrder ==
    \A s \in Sessions :
        /\ IsPrefix(trace[s], StageOrder)
        /\ pc[s] = "Validating" => Len(trace[s]) = 0
        /\ pc[s] = "Captioning" => Len(trace[s]) = 1
        /\ pc[s] = "Classifying" => Len(trace[s]) = 2
        /\ pc[s] = "PromptBuilding" => Len(trace[s]) = 3
        /\ pc[s] = "RecipeGenerating" => Len(trace[s]) = 4
        /\ pc[s] = "NutritionEstimating" => Len(trace[s]) = 5
        /\ pc[s] = "Emitting" => Len(trace[s]) = 6
        /\ pc[s] = "Done" => trace[s] = StageOrder

C3_Witness ==
    \E s \in Sessions : pc[s] = "Done" /\ trace[s] = StageOrder


\* C4 as claimed: an execution enters Failed only from Validating.
C4_FailedOnlyFromValidating ==
    [][\A s \in Sessions :
          (pc'[s] = "Failed" /\ pc[s] # "Failed") => pc[s] = "Validating"]_vars

\* the execution is handling an upload
RunStates == {"Decoding", "Validating"} \cup PipelineStates

\* C4 (amended): an execution enters Failed only from the image-decoding
\* step or from Validating, never from Captioning, Classifying,
\* PromptBuilding, RecipeGenerating, NutritionEstimating or the emission of
\* the result; an execution that handles an upload ends only in Done or
\* Failed, or back in Idle when validation passed and the button was not
\* pressed; and Failed means there is no result bundle, Done that there is.
C4_FailedOnlyFromDecodingOrValidating ==
    /\ [][\A s \in Sessions :
            /\ (pc'[s] = "Failed" /\ pc[s] # "Failed") =>
                   pc[s] \in {"Decoding", "Validating"}
            /\ (pc[s] \in PipelineStates /\ pc'[s] # pc[s]) =>
                   pc'[s] \in PipelineStates \cup {"Done"}
            /\ (pc[s] \in RunStates /\ pc'[s] \in EndStates) =>
                   \/ pc'[s] \in {"Done", "Failed"}
                   \/ pc[s] = "Validating" /\ pc'[s] = "Idle" /\ validation'[s][1].ok]_vars
    /\ [](\A s \in Sessions :
            /\ pc[s] = "Failed" =>
                   /\ result[s] = << >>
                   /\ image[s] = << >> \/ IsRejected(s)
            /\ pc[s] = "Done" => result[s] # << >>)

C4_Witness ==
    \E s, t \in Sessions :
        /\ pc[s] = "Failed" /\ image[s] = << >>
        /\ pc[t] = "Failed" /\ IsRejected(t)

\* what the script namespace of a fresh execution holds: nothing
IsFreshRun(s) ==
    /\ handles[s] = << >>
    /\ image[s] = << >>
    /\ validation[s] = << >>
    /\ caption[s] = << >>
    /\ food_predictions[s] = << >>
    /\ prompt[s] = << >>
    /\ recipe[s] = << >>
    /\ nutrition[s] = << >>
    /\ result[s] = << >>
    /\ failed[s] = {}
    /\ trace[s] = << >>

\* C5 as claimed: a new execution starts with nothing that an earlier run
\* wrote, the session-scoped counter included (it is absent or still 0).
C5_NothingCarriedOver ==
    \A s \in Sessions :
        pc[s] = "Loading" =>
            /\ IsFreshRun(s)
            /\ session_state[s] \in {<< >>, <<0>>}

\* C5 (amended): a new execution starts with none of the values an earlier
\* execution computed (image, validation, caption, predictions, prompt,
\* recipe, nutrition, result); what is carried over is the memoized model
\* handles and the session counter recipes_generated.
C5_OnlyRegistryAndCounterCarriedOver ==
    \A s \in Sessions : pc[s] = "Loading" => IsFreshRun(s)

C5_Witness ==
    \E s \in Sessions :
        /\ pc[s] = "Loading"
        /\ session_state[s] = <<1>>
        /\ cache_resource["load_models"] # << >>


\* the loader that memoizes a ModelManager's pair of the given kind
LoaderOf(kind) ==
    CASE kind = "blip" -> "load_blip_model"
      [] kind = "vit" -> "load_vit_model"
      [] kind = "flan" -> "load_flan_model"

C7_HandleOnOwnDevice ==
    \A m \in Managers : \A k \in Kinds :
        models[m][k] # << >> => models[m][k][1].device = device_of[m][1]

\* C8: a script execution whose load_models fails halts there: it leaves
\* Loading for Halted, has run no stage and bound no handle, and only a new
\* execution follows; an execution past Loading holds all three handles;
\* and create_model_manager returns a manager only with all three pairs
\* stored, never one whose load raised.
C8_LoadFailureIsFatal ==
    /\ [][\A s \in Sessions :
            /\ (pc[s] = "Loading" /\ pc'[s] # "Loading"
                    /\ cache_resource'["load_models"] = << >>) =>
                   pc'[s] = "Halted"
            /\ (pc[s] = "Halted" /\ pc'[s] # "Halted") => pc'[s] = "Loading"]_vars
    /\ [](\A s \in Sessions :
            /\ pc[s] = "Halted" => IsFreshRun(s)
            /\ pc[s] \in RunStates \cup {"Sidebar", "Done"} =>
                   /\ handles[s] # << >>
                   /\ \A k \in Kinds : handles[s][1][k].kind = k)
    /\ [](\A m \in Managers :
            /\ returned[m] => \A k \in Kinds : models[m][k] # << >>
            /\ (via_factory[m] /\ mpc[m] = "raised") => ~returned[m])

C8_Witness ==
    \E s \in Sessions : \E m \in Managers :
        /\ pc[s] = "Halted"
        /\ via_factory[m]
        /\ mpc[m] = "raised"
        /\ models[m]["blip"] # << >>
        /\ models[m]["flan"] = << >>

\* the handle the session's thread is inside an inference call on
HandleInUse(s) ==
    CASE pc[s] = "Captioning" -> <<handles[s][1]["blip"]>>
      [] pc[s] = "Classifying" -> <<handles[s][1]["vit"]>>
      [] pc[s] = "RecipeGenerating" -> <<handles[s][1]["flan"]>>
      [] OTHER -> << >>

\* C9 as claimed: no two executions are inside an inference call on the
\* same model handle at the same time.
C9_NoConcurrentUseOfAHandle ==
    \A s, t \in Sessions :
        (s # t /\ HandleInUse(s) # << >>) => HandleInUse(s) # HandleInUse(t)

MAX_IMAGE_SIZE == <<4096, 4096>>

\* C11 as claimed: validate rejects, with a "too large" reason, every image
\* whose width or height exceeds the configured maximum of 4096x4096 pixels
\* (stated here for the images that are not already rejected as too small
\* and whose PNG re-encoding succeeds, such as the 5000x5000 one).
C11_OversizedImageRejected ==
    (/\ v_result # << >>
     /\ v_image.w >= MinImageSide /\ v_image.h >= MinImageSide
     /\ v_image.encodes
     /\ (v_image.w > MAX_IMAGE_SIZE[1] \/ v_image.h > MAX_IMAGE_SIZE[2]))
        => (~v_result[1].ok /\ v_result[1].reason = TooLargeMessage)

(***************************************************************************)
(* classify_food called on its own: every softmax output of                *)
(* TestProbVectors, every top_k up to MaxTopK, the model call raising or   *)
(* not.                                                                    *)
(***************************************************************************)
MaxTopK == 6

\* softmax outputs, in percent; the short ones are those of a classifier
\* with fewer labels than the caller may ask for
TestProbVectors ==
    ProbVectors \cup
    { <<100, 0, 0, 0, 0, 0>>, <<20, 20, 20, 20, 10, 10>>,
      <<17, 17, 17, 17, 16, 16>>, <<50, 30, 20>>, <<33, 34, 33>>, <<100>> }

InitClassify ==
    /\ InitApp /\ InitManagers /\ InitInference
    /\ NoCalls({"classify_food"})
    /\ c_args \in [probs : TestProbVectors, top_k : 1..MaxTopK, raises : BOOLEAN]
    /\ c_result = << >>

CallClassifyFood ==
    /\ c_result = << >>
    /\ c_result' = <<ClassifyFoodReturn(c_args.probs, c_args.top_k, c_args.raises)>>
    /\ UNCHANGED <<c_args, registryVars, appVars, mmVars, m_call>>
    /\ UNCHANGED <<validateVars, nutritionVars, promptVars, exportVars>>

NextClassify == CallClassifyFood

SpecClassify == InitClassify /\ [][NextClassify]_vars

\* the entries are in descending order of confidence, each within [0, 1]
SortedInRange(r) ==
    /\ \A i, j \in 1..Len(r) : i < j => r[i][2] >= r[j][2]
    /\ \A i \in 1..Len(r) : r[i][2] >= 0 /\ r[i][2] <= 100

\* C12 as claimed: classify(image, k) with k >= 1 always returns exactly k
\* entries (fewer only if the label set is smaller than k), sorted by
\* descending confidence, with all confidences in [0,1].
C12_AlwaysKEntries ==
    c_result # << >> =>
        LET r == c_result[1]
            labels == Len(c_args.probs)
        IN /\ Len(r) = IF c_args.top_k <= labels THEN c_args.top_k ELSE labels
           /\ SortedInRange(r)

\* C12 (amended): when the model call succeeds and the label set has at
\* least k labels, classify returns exactly k entries, the k most probable
\* labels each with its probability, sorted by descending confidence, all
\* confidences in [0,1]; when the model call raises, or k exceeds the
\* number of labels, it returns the single entry ("Unknown", 0.0).
C12_KEntriesOrPlaceholder ==
    c_result # << >> =>
        LET r == c_result[1]
            probs == c_args.probs
            k == c_args.top_k
        IN IF c_args.raises \/ k > Len(probs)
           THEN r = << <<"Unknown", 0>> >>
           ELSE /\ Len(r) = k
                /\ SortedInRange(r)
                /\ \E pick \in [1..k -> 1..Len(probs)] :
                     /\ \A i, j \in 1..k : i # j => pick[i] # pick[j]
                     /\ \A i \in 1..k :
                          r[i] = <<Id2Label[pick[i]], probs[pick[i]]>>
                     /\ \A n \in 1..Len(probs) :
                          (\A i \in 1..k : pick[i] # n) => probs[n] <= r[k][2]

C12_Witness ==
    /\ c_result # << >>
    /\ c_args = [probs |-> <<5, 10, 50, 5, 20, 10>>, top_k |-> 5, raises |-> FALSE]
    /\ Len(c_result[1]) = 5
    /\ c_result[1][1] = <<"caesar_salad", 50>>

(***************************************************************************)
(* estimate_nutrition called on its own, up to MaxCalls times on the same  *)
(* dish name, for every name of TestDishes.                                *)
(***************************************************************************)
MaxCalls == 2

\* pieces of dish names: the table's keys, other words, mixed case, parts
\* of a key
TestWords ==
    { << >>, StrChars("pizza"), StrChars("burger"), StrChars("salad"),
      StrChars("pasta"), StrChars("sushi"), StrChars("ramen"),
      <<"P", "i", "z", "z", "a">>, <<"S", "U", "S", "H", "I">>,
      <<"P", "a", "s", "t", "a">>, <<"p", "i", "z">>, <<"z", "a">> }

\* dish names: two pieces, joined directly or by an underscore
TestDishes ==
    {a \o sep \o b : a \in TestWords, b \in TestWords, sep \in {<< >>, <<"_">>}}

InitNutrition ==
    /\ InitApp /\ InitManagers /\ InitInference
    /\ NoCalls({"estimate_nutrition"})
    /\ n_dish \in TestDishes
    /\ n_results = << >>

CallEstimateNutrition ==
    /\ Len(n_results) < MaxCalls
    /\ n_results' = Append(n_results, EstimateNutritionOf(n_dish))
    /\ UNCHANGED <<n_dish, registryVars, appVars, mmVars, m_call>>
    /\ UNCHANGED <<validateVars, classifyVars, promptVars, exportVars>>

NextNutrition == CallEstimateNutrition

SpecNutrition == InitNutrition /\ [][NextNutrition]_vars

\* the reference of C13: scan the keys pizza, burger, salad, pasta, sushi
\* from the n-th on and return the record of the first one that is a
\* substring of the lowercased label, the default record when none is
RECURSIVE C13_Reference(_, _)
C13_Reference(label, n) ==
    LET keys == <<"pizza", "burger", "salad", "pasta", "sushi">>
    IN IF n > Len(keys)
       THEN [calories |-> "~300", protein |-> "~15g", carbs |-> "~40g", fat |-> "~12g"]
       ELSE IF IsSubstring(StrChars(keys[n]), Lower(label))
       THEN NutritionDb(keys[n])
       ELSE C13_Reference(label, n + 1)

\* C13: estimate(dishLabel) equals the reference for every label: the
\* record of the first of pizza, burger, salad, pasta, sushi that is a
\* substring of the lowercased label ("pizza" gives calories "285"), else
\* the default record whose calories, protein, carbs and fat all start with
\* "~"; repeated calls with the same label return identical records.
C13_EstimateIsReference ==
    \A i \in 1..Len(n_results) :
        LET r == n_results[i]
            no_key == \A k \in {"pizza", "burger", "salad", "pasta", "sushi"} :
                         ~IsSubstring(StrChars(k), Lower(n_dish))
        IN /\ r = C13_Reference(n_dish, 1)
           /\ n_dish = StrChars("pizza") => r.calories = "285"
           /\ no_key => \A f \in {"calories", "protein", "carbs", "fat"} :
                           StrChars(r[f])[1] = "~"
           /\ \A j \in 1..Len(n_results) : n_results[j] = r

\* a mixed-case name holding two keys, asked twice: the earlier key of the
\* table (salad) wins over the one that comes first in the name (pasta)
C13_Witness ==
    /\ n_dish = <<"P", "a", "s", "t", "a", "_", "s", "a", "l", "a", "d">>
    /\ Len(n_results) = 2
    /\ n_results[1].calories = "150"
    /\ n_results[2] = n_results[1]

(***************************************************************************)
(* The two prompt builders called on their own: generate_recipe of app.py  *)
(* and ModelManager.generate_recipe, up to the prompt they hand to the     *)
(* tokenizer, over the sidebar's choices.                                  *)
(***************************************************************************)
\* the selectbox, the slider and the select_slider of app.py:339-358
DietaryOptions == {"None", "Vegetarian", "Vegan", "Gluten-Free", "Keto",
                   "Low-Carb", "Dairy-Free"}
MinServings == 1
MaxServings == 12
DifficultyOptions == {"Easy", "Medium", "Hard"}

PromptBuilders == {"app", "ModelManager"}

InitPrompt ==
    /\ InitApp /\ InitManagers /\ InitInference
    /\ NoCalls({"generate_recipe"})
    /\ p_args \in [builder : PromptBuilders,
                   dish : {"pizza", UnknownLabel},
                   caption : {ModelCaption, CaptionPlaceholder},
                   dietary_pref : DietaryOptions,
                   servings : MinServings..MaxServings,
                   difficulty : DifficultyOptions]
    /\ p_result = << >>

\* generate_recipe of app.py, up to the prompt
CallGenerateRecipe ==
    /\ p_result = << >>
    /\ p_args.builder = "app"
    /\ p_result' = <<BuildPrompt(p_args.dish, p_args.caption, p_args.dietary_pref,
                                 p_args.servings, p_args.difficulty)>>
    /\ UNCHANGED <<p_args, registryVars, appVars, mmVars, m_call>>
    /\ UNCHANGED <<validateVars, classifyVars, nutritionVars, exportVars>>

\* ModelManager.generate_recipe, up to the prompt
CallManagerGenerateRecipe ==
    /\ p_result = << >>
    /\ p_args.builder = "ModelManager"
    /\ p_result' = <<ManagerBuildPrompt(p_args.dish, p_args.caption,
                                        p_args.dietary_pref, p_args.servings,
                                        p_args.difficulty)>>
    /\ UNCHANGED <<p_args, registryVars, appVars, mmVars, m_call>>
    /\ UNCHANGED <<validateVars, classifyVars, nutritionVars, exportVars>>

NextPrompt == CallGenerateRecipe \/ CallManagerGenerateRecipe

SpecPrompt == InitPrompt /\ [][NextPrompt]_vars

\* the line has the given literal among its pieces
HasPiece(line, piece) == \E j \in 1..Len(line) : line[j] = piece

\* C14: in the prompt of either builder the clause "The recipe must be
\* <dietaryPreference>. " stands immediately before "Servings:" exactly
\* when the preference is not "None"; when it is "None" the clause is
\* absent and the Servings line follows the Description line directly,
\* with no empty line between them.
C14_DietaryClauseBeforeServings ==
    p_result # << >> =>
        LET lines == p_result[1]
            pref == p_args.dietary_pref
            servings_line == <<"Servings: ", ToString(p_args.servings)>>
        IN /\ {i \in 1..Len(lines) : HasPiece(lines[i], "Servings: ")} = {5}
           /\ lines[4] = <<"Description: ", p_args.caption>>
           /\ pref # "None" =>
                  lines[5] = <<"The recipe must be ", pref, ". ">> \o servings_line
           /\ pref = "None" => lines[5] = servings_line
           /\ \A i \in 1..Len(lines) :
                  HasPiece(lines[i], "The recipe must be ") =>
                      (i = 5 /\ pref # "None")

C14_Witness ==
    /\ p_result # << >>
    /\ p_args.builder = "ModelManager"
    /\ p_args.dietary_pref = "Vegan"
    /\ p_args.servings = 12
    /\ p_result[1][5] = <<"The recipe must be ", "Vegan", ". ", "Servings: ", "12">>

(***************************************************************************)
(* The download text (app.py:530-551), as its lines: the f-string split at *)
(* its newlines, a line being the sequence of its literal and interpolated *)
(* pieces.  The text opens and closes with a newline, so the first and the *)
(* last line are empty.                                                    *)
(***************************************************************************)
SeparatorWidth == 50

\* "=" * 50
Separator == [i \in 1..SeparatorWidth |-> "="]

\* a Dietary line whatever the preference
DietaryLineAlways(dietary) == <<"Dietary: ", dietary>>

\* f"Dietary: {dietary_pref}" if dietary_pref != "None" else ""
DietaryLine(dietary) ==
    IF dietary # "None" THEN <<"Dietary: ", dietary>> ELSE << >>

RecipeText(primary_dish, caption_text, recipe_text, nutrition_record, dietary, servings, difficulty) ==
    << << >>,
       <<primary_dish>>,
       Separator,
       << >>,
       <<"Servings: ", ToString(servings)>>,
       <<"Difficulty: ", difficulty>>,
       DietaryLine(dietary),
       << >>,
       <<"Image Description: ", caption_text>>,
       << >>,
       <<"NUTRITIONAL INFORMATION (per serving):">>,
       <<"- Calories: ", nutrition_record.calories>>,
       <<"- Protein: ", nutrition_record.protein>>,
       <<"- Carbs: ", nutrition_record.carbs>>,
       <<"- Fat: ", nutrition_record.fat>>,
       << >>,
       <<"RECIPE:">>,
       <<recipe_text>>,
       << >>,
       <<"---">>,
       <<"Generated by AI Vision Recipe Generator">>,
       << >> >>

\* the dishes a run can end with: a label of the classifier or the placeholder
ExportDishes == {Id2Label[i] : i \in 1..Len(Id2Label)} \cup {UnknownLabel}

InitExport ==
    /\ InitApp /\ InitManagers /\ InitInference
    /\ NoCalls({"recipe_text"})
    /\ x_args \in [primary_dish : ExportDishes,
                   caption : {ModelCaption, CaptionPlaceholder},
                   recipe : {ModelRecipe, RecipePlaceholder},
                   dietary_pref : DietaryOptions,
                   servings : MinServings..MaxServings,
                   difficulty : DifficultyOptions]
    /\ x_result = << >>

\* nutrition = estimate_nutrition(primary_dish), then the template
BuildRecipeText ==
    /\ x_result = << >>
    /\ x_result' = <<RecipeText(x_args.primary_dish, x_args.caption, x_args.recipe,
                                EstimateNutrition(x_args.primary_dish),
                                x_args.dietary_pref, x_args.servings,
                                x_args.difficulty)>>
    /\ UNCHANGED <<x_args, registryVars, appVars, mmVars, m_call>>
    /\ UNCHANGED <<validateVars, classifyVars, nutritionVars, promptVars>>

NextExport == BuildRecipeText

SpecExport == InitExport /\ [][NextExport]_vars

\* how many pieces of the line are the given one
Occurrences(line, piece) == Cardinality({j \in 1..Len(line) : line[j] = piece})

\* the lines of the text, among those numbered in `among`, that start with
\* the given literal
LinesStarting(lines, among, literal) ==
    {i \in among : lines[i] # << >> /\ lines[i][1] = literal}

\* C15: the export text has the dish name exactly once in the header line
\* before the separator of 50 "=" characters, the servings integer exactly
\* once on the one Servings line, the calories string exactly once on the
\* one Calories line of the nutrition block, and a Dietary line only when
\* the preference is not "None".
C15_ExportSections ==
    x_result # << >> =>
        LET lines == x_result[1]
            all == 1..Len(lines)
            sep == CHOOSE i \in all :
                      Len(lines[i]) = 50 /\ \A j \in 1..50 : lines[i][j] = "="
            header == {i \in 1..(sep - 1) : lines[i] # << >>}
            nutr == CHOOSE i \in all :
                      lines[i] = <<"NUTRITIONAL INFORMATION (per serving):">>
            rec == CHOOSE i \in all : lines[i] = <<"RECIPE:">>
            calories == EstimateNutrition(x_args.primary_dish).calories
            dietary == LinesStarting(lines, all, "Dietary: ")
        IN /\ \E i \in all : Len(lines[i]) = 50 /\ \A j \in 1..50 : lines[i][j] = "="
           /\ header = {sep - 1}
           /\ lines[sep - 1] = <<x_args.primary_dish>>
           /\ Occurrences(lines[sep - 1], x_args.primary_dish) = 1
           /\ \E i \in all :
                /\ LinesStarting(lines, all, "Servings: ") = {i}
                /\ lines[i] = <<"Servings: ", ToString(x_args.servings)>>
           /\ nutr < rec
           /\ \E i \in (nutr + 1)..(rec - 1) :
                /\ LinesStarting(lines, all, "- Calories: ") = {i}
                /\ lines[i] = <<"- Calories: ", calories>>
           /\ (dietary # {}) <=> (x_args.dietary_pref # "None")
           /\ \A i \in dietary : lines[i] = <<"Dietary: ", x_args.dietary_pref>>
           /\ Cardinality(dietary) <= 1

C15_Witness ==
    /\ x_result # << >>
    /\ x_args.primary_dish = "pizza"
    /\ x_args.dietary_pref = "None"
    /\ x_args.servings = 4
    /\ x_result[1][2] = <<"pizza">>
    /\ x_result[1][5] = <<"Servings: ", "4">>
    /\ x_result[1][7] = << >>
    /\ x_result[1][12] = <<"- Calories: ", "285">>

\* the step in which an execution of session s reaches the result stage
ReachesResult(s) == pc[s] = "Emitting" /\ pc'[s] = "Done"

\* C16: recipes_generated starts at 0, never decreases, grows by exactly 1
\* in each execution that reaches the result stage, whether or not its
\* model stages fell back to their placeholders, and is changed by nothing
\* else (no upload, validation failure, button not pressed): it counts the
\* session's runs that reached the result stage.
C16_CounterCountsResults ==
    [][\A s \in Sessions :
          LET before == session_state[s]
              after == session_state'[s]
          IN /\ before = << >> => after \in {<< >>, <<0>>}
             /\ before # << >> =>
                  /\ after # << >>
                  /\ after[1] >= before[1]
                  /\ after[1] = IF ReachesResult(s) THEN before[1] + 1
                                ELSE before[1]
             /\ ReachesResult(s) => before # << >>]_vars

\* a session's second run ends with a result although all three model
\* calls raised, and the counter is 2
C16_Witness ==
    /\ pc["s1"] = "Done"
    /\ failed["s1"] = {"caption", "classify", "recipe"}
    /\ session_state["s1"] = <<2>>

(***************************************************************************)
(* models.py: the inference methods of a ModelManager (85-220), called by  *)
(* whoever holds the object, in any order, before, between and after its   *)
(* loads.  Each method looks its pair up in self.models inside its try, so *)
(* the KeyError of a missing kind is caught like an error of the model.    *)
(***************************************************************************)
\* the caller has the object and is not inside a load
CallerHolds(m) ==
    /\ mpc[m] \in {"constructed", "loaded", "raised"}
    /\ ~via_factory[m] \/ returned[m]

\* the record of a call: which method, whether self.models held its kind,
\* what it returned (optional) and whether an exception reached the caller
Outcome(method, stored, value, raised) ==
    [method |-> method, stored |-> stored, value |-> value, raised |-> raised]

\* generate_caption with the lookup of self.models['blip'] above its try
ManagerGenerateCaptionUnguarded(m) ==
    /\ CallerHolds(m)
    /\ \E raises \in BOOLEAN :
         LET stored == models[m]["blip"] # << >>
         IN m_call' = [m_call EXCEPT ![m] =
               << IF ~stored
                  THEN Outcome("generate_caption", stored, << >>, TRUE)
                  ELSE Outcome("generate_caption", stored,
                               <<IF raises THEN CaptionPlaceholder ELSE ModelCaption>>,
                               FALSE) >>]
    /\ UNCHANGED <<mmVars, registryVars, appVars, unitVars>>

\* ModelManager.generate_caption
ManagerGenerateCaption(m) ==
    /\ CallerHolds(m)
    /\ \E raises \in BOOLEAN :
         LET stored == models[m]["blip"] # << >>
             error == ~stored \/ raises
         IN m_call' = [m_call EXCEPT ![m] =
               << Outcome("generate_caption", stored,
                          <<IF error THEN CaptionPlaceholder ELSE ModelCaption>>,
                          FALSE) >>]
    /\ UNCHANGED <<mmVars, registryVars, appVars, unitVars>>

\* ModelManager.classify_food
ManagerClassifyFood(m) ==
    /\ CallerHolds(m)
    /\ \E raises \in BOOLEAN, probs \in ProbVectors, top_k \in {TopKHidden, TopKShown} :
         LET stored == models[m]["vit"] # << >>
             error == ~stored \/ raises
         IN m_call' = [m_call EXCEPT ![m] =
               << Outcome("classify_food", stored,
                          <<ClassifyFoodReturn(probs, top_k, error)>>, FALSE) >>]
    /\ UNCHANGED <<mmVars, registryVars, appVars, unitVars>>

\* ModelManager.generate_recipe
ManagerGenerateRecipe(m) ==
    /\ CallerHolds(m)
    /\ \E raises \in BOOLEAN :
         LET stored == models[m]["flan"] # << >>
             error == ~stored \/ raises
         IN m_call' = [m_call EXCEPT ![m] =
               << Outcome("generate_recipe", stored,
                          <<IF error THEN RecipePlaceholder ELSE ModelRecipe>>,
                          FALSE) >>]
    /\ UNCHANGED <<mmVars, registryVars, appVars, unitVars>>

InferenceStep(m) ==
    \/ ManagerGenerateCaption(m)
    \/ ManagerClassifyFood(m)
    \/ ManagerGenerateRecipe(m)

\* one ModelManager, its loads and its inference calls
NextInference ==
    \E m \in RegistryManagers : ManagerStep(m) \/ InferenceStep(m)

SpecInference == Init /\ [][NextInference]_vars

\* C17: generate_caption, classify_food and generate_recipe called on a
\* ModelManager whose self.models lacks the method's kind (load_all_models
\* never called, or failed before storing that kind) never raise to the
\* caller, return "Unable to generate caption", [("Unknown", 0.0)] and
\* "Unable to generate recipe. Please try again." respectively, and leave
\* self.models unchanged.
C17_UnloadedCallsReturnPlaceholders ==
    /\ [](\A m \in Managers :
             (m_call[m] # << >> /\ ~m_call[m][1].stored) =>
                 LET c == m_call[m][1]
                 IN /\ ~c.raised
                    /\ c.value # << >>
                    /\ c.method = "generate_caption" =>
                           c.value[1] = "Unable to generate caption"
                    /\ c.method = "classify_food" =>
                           c.value[1] = << <<"Unknown", 0>> >>
                    /\ c.method = "generate_recipe" =>
                           c.value[1] = "Unable to generate recipe. Please try again.")
    /\ [][\A m \in Managers :
             m_call'[m] # m_call[m] => models' = models]_vars

\* load_all_models stored the captioner's pair and then failed; the
\* classifier is asked and answers with its placeholder
C17_Witness ==
    /\ mpc["m1"] = "raised"
    /\ models["m1"]["blip"] # << >>
    /\ models["m1"]["vit"] = << >>
    /\ m_call["m1"] # << >>
    /\ m_call["m1"][1].method = "classify_food"
    /\ ~m_call["m1"][1].stored
    /\ m_call["m1"][1].value = << << <<"Unknown", 0>> >> >>

====
